---- MODULE Spec2Model ----
(***************************************************************************)
(* Model of package junitxml (internal/junitxml/report.go): the conversion *)
(* of a testjson.Execution into a JUnit XML report.                        *)
(*                                                                         *)
(* Strings the code inspects or rewrites (package names, prefixes, the     *)
(* output of "go version", environment values) are sequences of one        *)
(* character strings, so that Split, Join, Clean, Replace and Trim are     *)
(* computed character by character.  Texts the code only copies (test      *)
(* names, messages) are TLA+ strings.                                      *)
(***************************************************************************)
EXTENDS Integers, Sequences, FiniteSets, TLC

VARIABLES
    env,        \* process environment: GOTESTSUM_SUITE and GOVERSION
    goCmd,      \* what running "go version" does: [err, out]
    exec,       \* the testjson.Execution handed to Write
    strip,      \* argument strip
    prefix,     \* argument prefix
    pc,         \* position inside Write / goVersion / mungePackageName
    version,    \* local variable version of generate
    execCalls,  \* number of subprocesses started so far
    idx,        \* number of packages the loop of generate has consumed
    suites,     \* suites.Suites being built by generate
    doc,        \* result of xml.MarshalIndent in write (<<>> before it)
    sink,       \* what reached the io.Writer out, one entry per Write call
    err,        \* the error returned by Write (<<>> is nil)
    trace,      \* the steps of write that ran, with their outcome
    n,          \* argument n of mungePackageName
    munged      \* result of mungePackageName

vars == <<env, goCmd, exec, strip, prefix, pc, version, execCalls, idx,
          suites, doc, sink, err, trace, n, munged>>

-----------------------------------------------------------------------------
(* Bounds of the model *)

\* longest package name enumerated for mungePackageName
MaxLen == 3
\* longest prefix enumerated for mungePackageName
MaxPre == 2
\* largest number of packages in an execution
MaxPkgs == 2
\* longest text enumerated for the GOVERSION value and the body of the
\* "go version" output
MaxOut == 2

-----------------------------------------------------------------------------
(* Strings *)

RECURSIVE SeqsUpTo(_, _)
\* all sequences over S of length at most k
SeqsUpTo(S, k) ==
    IF k = 0 THEN {<<>>}
    ELSE LET shorter == SeqsUpTo(S, k - 1)
         IN  shorter \cup {Append(s, c) : s \in shorter, c \in S}

RECURSIVE Split(_)
\* strings.Split(s, "/")
Split(s) ==
    IF \A i \in 1..Len(s) : s[i] # "/" THEN <<s>>
    ELSE LET k == CHOOSE i \in 1..Len(s) :
                      s[i] = "/" /\ \A j \in 1..(i - 1) : s[j] # "/"
         IN  <<SubSeq(s, 1, k - 1)>> \o Split(SubSeq(s, k + 1, Len(s)))

RECURSIVE StringsJoin(_)
\* strings.Join(elems, "/")
StringsJoin(elems) ==
    IF elems = <<>> THEN <<>>
    ELSE IF Len(elems) = 1 THEN elems[1]
    ELSE elems[1] \o <<"/">> \o StringsJoin(Tail(elems))

RECURSIVE CleanElems(_, _, _)
\* the element loop of path.Clean: out is the stack of elements kept so far
CleanElems(segs, out, rooted) ==
    IF segs = <<>> THEN out
    ELSE LET e == Head(segs)
             rest == Tail(segs)
         IN  IF e = <<>> \/ e = <<".">>
             THEN CleanElems(rest, out, rooted)
             ELSE IF e = <<".", ".">>
             THEN IF out # <<>> /\ out[Len(out)] # <<".", ".">>
                  THEN CleanElems(rest, SubSeq(out, 1, Len(out) - 1), rooted)
                  ELSE IF rooted
                       THEN CleanElems(rest, out, rooted)
                       ELSE CleanElems(rest, Append(out, e), rooted)
             ELSE CleanElems(rest, Append(out, e), rooted)

\* path.Clean(p)
Clean(p) ==
    IF p = <<>> THEN <<".">>
    ELSE LET rooted == p[1] = "/"
             body == StringsJoin(CleanElems(Split(p), <<>>, rooted))
             r == IF rooted THEN <<"/">> \o body ELSE body
         IN  IF r = <<>> THEN <<".">> ELSE r

\* path.Join(elems...): the empty leading elements are ignored, the rest is
\* joined with "/" and cleaned; no non-empty element gives ""
PathJoin(elems) ==
    LET nonEmpty == {i \in 1..Len(elems) : elems[i] # <<>>}
    IN  IF nonEmpty = {} THEN <<>>
        ELSE LET first == CHOOSE i \in nonEmpty : \A j \in nonEmpty : i <= j
             IN  Clean(StringsJoin(SubSeq(elems, first, Len(elems))))

\* strings.Replace(s, old, new, -1) for one character old and new
Replace(s, old, new) == [i \in 1..Len(s) |-> IF s[i] = old THEN new ELSE s[i]]

-----------------------------------------------------------------------------
(* The name normalizer *)

\* stripPathElements keeping one element too many (elems[strip-1:])
stripPathElementsOffByOne(pkgname, k) ==
    IF k = 0 THEN pkgname
    ELSE LET elems == Split(pkgname)
         IN  IF k > Len(elems) THEN <<>>
             ELSE PathJoin(SubSeq(elems, k, Len(elems)))

stripPathElements(pkgname, k) ==
    IF k = 0 THEN pkgname
    ELSE LET elems == Split(pkgname)
         IN  IF k > Len(elems) THEN <<>>
             ELSE PathJoin(SubSeq(elems, k + 1, Len(elems)))

\* mungePackageName with the two replacements in the other order
mungePackageNameSwapped(name, k, pre) ==
    LET n1 == stripPathElements(name, k)
        n2 == PathJoin(<<pre, n1>>)
        n3 == Replace(n2, "/", ".")
    IN  Replace(n3, ".", "-")

mungePackageName(name, k, pre) ==
    LET n1 == stripPathElements(name, k)
        n2 == PathJoin(<<pre, n1>>)
        n3 == Replace(n2, ".", "-")
    IN  Replace(n3, "/", ".")

-----------------------------------------------------------------------------
(* Environment and the toolchain version *)

Unset == [set |-> FALSE, val |-> <<>>]
SetTo(v) == [set |-> TRUE, val |-> v]

\* os.Getenv(key)
Getenv(e, key) == IF e[key].set THEN e[key].val ELSE <<>>

\* os.LookupEnv(key): the value and whether the variable is present
LookupEnv(e, key) == e[key]

IsSpace(c) == c \in {" ", "\n", "\t"}

RECURSIVE TrimLeftSpace(_)
TrimLeftSpace(s) ==
    IF s # <<>> /\ IsSpace(Head(s)) THEN TrimLeftSpace(Tail(s)) ELSE s

RECURSIVE TrimRightSpace(_)
TrimRightSpace(s) ==
    IF s # <<>> /\ IsSpace(s[Len(s)])
    THEN TrimRightSpace(SubSeq(s, 1, Len(s) - 1))
    ELSE s

\* strings.TrimSpace(s)
TrimSpace(s) == TrimRightSpace(TrimLeftSpace(s))

\* strings.HasPrefix(s, p)
HasPrefix(s, p) == Len(s) >= Len(p) /\ SubSeq(s, 1, Len(p)) = p

\* strings.TrimPrefix(s, p)
TrimPrefix(s, p) == IF HasPrefix(s, p) THEN SubSeq(s, Len(p) + 1, Len(s)) ELSE s

\* the literal "go version "
GoVersionPrefix == <<"g", "o", " ", "v", "e", "r", "s", "i", "o", "n", " ">>

\* the literal "unknown"
Unknown == <<"u", "n", "k", "n", "o", "w", "n">>

\* goVersion reading GOVERSION with os.Getenv: an empty value is ignored
goVersionGetenv(e, cmd) ==
    LET x == Getenv(e, "GOVERSION")
    IN  IF x # <<>> THEN [version |-> x, execs |-> 0]
        ELSE IF cmd.err THEN [version |-> Unknown, execs |-> 1]
        ELSE [version |-> TrimPrefix(TrimSpace(cmd.out), GoVersionPrefix),
              execs |-> 1]

\* goVersion(): the string returned and the number of subprocesses it ran
goVersion(e, cmd) ==
    LET looked == LookupEnv(e, "GOVERSION")
    IN  IF looked.set THEN [version |-> looked.val, execs |-> 0]
        ELSE IF cmd.err THEN [version |-> Unknown, execs |-> 1]
        ELSE [version |-> TrimPrefix(TrimSpace(cmd.out), GoVersionPrefix),
              execs |-> 1]

-----------------------------------------------------------------------------
(* The execution model read by generate *)

\* testjson.TestCase
TestCase(pkgname, test) == [Package |-> pkgname, Test |-> test]

\* the three partitions of a package's tests, as lists of test names
Partitions ==
    { [Failed |-> <<>>, Skipped |-> <<>>, Passed |-> <<>>],
      [Failed |-> <<"TestB", "TestA">>, Skipped |-> <<>>,
       Passed |-> <<"TestC">>],
      [Failed |-> <<"TestC">>, Skipped |-> <<"TestD", "TestA">>,
       Passed |-> <<"TestE", "TestB">>],
      [Failed |-> <<>>, Skipped |-> <<"TestA">>,
       Passed |-> <<"TestC", "TestB">>] }

RECURSIVE Segments(_)
\* i times the text "/p"
Segments(i) == IF i = 0 THEN <<>> ELSE <<"/", "p">> \o Segments(i - 1)

\* the name of the i-th package of an execution: "c", "x.y/p", "x.y/p/p", ...
PkgName(i) == IF i = 1 THEN <<"c">> ELSE <<"x", ".", "y">> \o Segments(i - 1)

\* testjson.Package
Package(name, part, tmf) ==
    [name |-> name,
     Total |-> Len(part.Failed) + Len(part.Skipped) + Len(part.Passed),
     testMainFailed |-> tmf,
     Failed |-> [i \in 1..Len(part.Failed) |-> TestCase(name, part.Failed[i])],
     Skipped |-> [i \in 1..Len(part.Skipped) |-> TestCase(name, part.Skipped[i])],
     Passed |-> [i \in 1..Len(part.Passed) |-> TestCase(name, part.Passed[i])]]

\* the executions with k packages
Executions(k) ==
    {[i \in 1..k |-> Package(PkgName(i), f[i][1], f[i][2])] :
        f \in [1..k -> Partitions \X BOOLEAN]}

\* pkg.TestMainFailed()
TestMainFailed(pkg) == pkg.testMainFailed

\* pkg.Output(test): the captured output of a test, "" for the whole package
Output(pkg, test) == [pkg |-> pkg.name, test |-> test]

-----------------------------------------------------------------------------
(* Suite and case records *)

\* newJUnitTestCase that forgets the prefix
newJUnitTestCaseNoPrefix(tc, k, pre) ==
    [Classname |-> mungePackageName(tc.Package, k, <<>>),
     Name |-> tc.Test,
     SkipMessage |-> <<>>,
     Failure |-> <<>>]

newJUnitTestCase(tc, k, pre) ==
    [Classname |-> mungePackageName(tc.Package, k, pre),
     Name |-> tc.Test,
     SkipMessage |-> <<>>,
     Failure |-> <<>>]

\* JUnitFailure{Message: "Failed", Contents: contents}
JUnitFailure(contents) ==
    [Message |-> "Failed", Type |-> "", Contents |-> contents]

\* the case record of a failed test
FailedCase(pkg, tc, k, pre) ==
    [newJUnitTestCase(tc, k, pre) EXCEPT
        !.Failure = <<JUnitFailure(Output(pkg, tc.Test))>>]

\* the case record of a skipped test
SkippedCase(pkg, tc, k, pre) ==
    [newJUnitTestCase(tc, k, pre) EXCEPT
        !.SkipMessage = <<[Message |-> Output(pkg, tc.Test)]>>]

\* the case record of the failed test driver
TestMainCase(pkg, k, pre) ==
    [newJUnitTestCase(TestCase(<<>>, "TestMain"), k, pre) EXCEPT
        !.Failure = <<JUnitFailure(Output(pkg, ""))>>]

\* packageTestCases with the loops over Passed and Skipped exchanged
packageTestCasesPassedFirst(pkg, k, pre) ==
    LET c0 == <<>>
        c1 == IF TestMainFailed(pkg)
              THEN Append(c0, TestMainCase(pkg, k, pre))
              ELSE c0
        c2 == c1 \o [i \in 1..Len(pkg.Failed) |->
                        FailedCase(pkg, pkg.Failed[i], k, pre)]
        c3 == c2 \o [i \in 1..Len(pkg.Passed) |->
                        newJUnitTestCase(pkg.Passed[i], k, pre)]
    IN  c3 \o [i \in 1..Len(pkg.Skipped) |->
                  SkippedCase(pkg, pkg.Skipped[i], k, pre)]

packageTestCases(pkg, k, pre) ==
    LET c0 == <<>>
        c1 == IF TestMainFailed(pkg)
              THEN Append(c0, TestMainCase(pkg, k, pre))
              ELSE c0
        c2 == c1 \o [i \in 1..Len(pkg.Failed) |->
                        FailedCase(pkg, pkg.Failed[i], k, pre)]
        c3 == c2 \o [i \in 1..Len(pkg.Skipped) |->
                        SkippedCase(pkg, pkg.Skipped[i], k, pre)]
    IN  c3 \o [i \in 1..Len(pkg.Passed) |->
                  newJUnitTestCase(pkg.Passed[i], k, pre)]

packageProperties(v) == <<[Name |-> "go.version", Value |-> v]>>

\* suiteName testing the presence of GOTESTSUM_SUITE instead of its value
suiteNameIfPresent(e, pkgname, k, pre) ==
    LET looked == LookupEnv(e, "GOTESTSUM_SUITE")
    IN  IF looked.set THEN looked.val ELSE mungePackageName(pkgname, k, pre)

\* the name of a suite: GOTESTSUM_SUITE when it is not empty
suiteName(e, pkgname, k, pre) ==
    LET x == Getenv(e, "GOTESTSUM_SUITE")
    IN  IF x # <<>> THEN x ELSE mungePackageName(pkgname, k, pre)

\* the body of the loop of generate: the suite of one package
JUnitTestSuite(e, v, pkg, k, pre) ==
    [Name |-> suiteName(e, pkg.name, k, pre),
     Tests |-> pkg.Total,
     Properties |-> packageProperties(v),
     TestCases |-> packageTestCases(pkg, k, pre),
     Failures |-> Len(pkg.Failed)]

-----------------------------------------------------------------------------
(* Inputs *)

\* exec.Packages(): the names of the packages, in the execution's order
Packages(e) == [i \in 1..Len(e) |-> e[i].name]

\* exec.Package(name)
PackageOf(e, name) == e[CHOOSE i \in 1..Len(e) : e[i].name = name]

\* values of strip and prefix passed to Write
StripArgs == {0, 1}
PrefixArgs == {<<>>, <<"q", "/">>}

\* values of GOTESTSUM_SUITE
SuiteEnv == {Unset, SetTo(<<>>), SetTo(<<"s", ".", "/">>)}

\* GOVERSION and the behaviour of "go version" in the runs of Write
VersionWorlds ==
    { [GOVERSION |-> SetTo(<<"g", "o", "7">>), cmd |-> [err |-> TRUE, out |-> <<>>]],
      [GOVERSION |-> Unset, cmd |-> [err |-> TRUE, out |-> <<>>]],
      [GOVERSION |-> Unset,
       cmd |-> [err |-> FALSE, out |-> GoVersionPrefix \o <<"g", "o", "1", "\n">>]] }

\* values of GOVERSION and outputs of "go version" for goVersion alone
VersionChars == {"g", " "}
VersionEnv == {Unset} \cup {SetTo(v) : v \in SeqsUpTo(VersionChars, MaxOut)}
Spaces == {<<>>, <<" ">>, <<"\n">>}
GoOutputs ==
    {lead \o pre \o body \o trail :
        lead \in {<<>>, <<"\n">>}, pre \in {<<>>, GoVersionPrefix},
        body \in SeqsUpTo(VersionChars, MaxOut), trail \in Spaces}
GoCmds == {[err |-> TRUE, out |-> <<>>]} \cup {[err |-> FALSE, out |-> o] : o \in GoOutputs}

\* names and prefixes passed to mungePackageName
NameChars == {"a", "b", ".", "/"}
PrefixChars == {"q", ".", "/"}
NameABCDEF == <<"a", "/", "b", "/", "c", "/", "d", "/", "e", "/", "f">>
NameGithub == <<"g", "i", "t", "h", "u", "b", ".", "c", "o", "m", "/",
                "o", "r", "g", "/", "p", "k", "g">>
Prefix123 == <<"1", "/", "2", "/", "3">>
Names == SeqsUpTo(NameChars, MaxLen) \cup {NameABCDEF, NameGithub}
Prefixes == SeqsUpTo(PrefixChars, MaxPre) \cup {Prefix123, Prefix123 \o <<"/">>}

-----------------------------------------------------------------------------
(* Write *)

\* xml.Header
XmlHeader == [tag |-> "xml.Header", suites |-> <<>>]

\* xml.MarshalIndent(suites, "", "\t"): the document that encodes the suites
MarshalIndent(ss) == [tag |-> "testsuites", suites |-> ss]

\* errors.Wrap(e, msg): nil stays nil
errorsWrap(e, msg) ==
    IF e = <<>> THEN <<>> ELSE <<[msg |-> msg, cause |-> e[1]]>>

\* return of Write with the error e of write
Return(e) ==
    /\ err' = errorsWrap(e, "failed to write JUnit XML")
    /\ pc' = "done"

InitIdle ==
    /\ version = <<>>
    /\ execCalls = 0
    /\ idx = 0
    /\ suites = <<>>
    /\ doc = <<>>
    /\ sink = <<>>
    /\ err = <<>>
    /\ trace = <<>>
    /\ munged = <<>>

Init ==
    /\ \E k \in 0..MaxPkgs : exec \in Executions(k)
    /\ strip \in StripArgs
    /\ prefix \in PrefixArgs
    /\ \E w \in VersionWorlds, s \in SuiteEnv :
          /\ env = [GOTESTSUM_SUITE |-> s, GOVERSION |-> w.GOVERSION]
          /\ goCmd = w.cmd
    /\ pc = "goVersion"
    /\ n = <<>>
    /\ InitIdle

\* version := goVersion()
GoVersionCall ==
    /\ pc = "goVersion"
    /\ LET r == goVersion(env, goCmd)
       IN  /\ version' = r.version
           /\ execCalls' = execCalls + r.execs
    /\ pc' = "generate"
    /\ UNCHANGED <<env, goCmd, exec, strip, prefix, idx, suites, doc, sink,
                   err, trace, n, munged>>

\* one iteration of the loop of generate
GenerateLoop ==
    /\ pc = "generate"
    /\ idx < Len(exec)
    /\ LET pkgname == Packages(exec)[idx + 1]
           pkg == PackageOf(exec, pkgname)
       IN  suites' = Append(suites, JUnitTestSuite(env, version, pkg, strip, prefix))
    /\ idx' = idx + 1
    /\ UNCHANGED <<env, goCmd, exec, strip, prefix, pc, version, execCalls,
                   doc, sink, err, trace, n, munged>>

\* the loop of generate is over: generate returns suites to write
GenerateReturn ==
    /\ pc = "generate"
    /\ idx = Len(exec)
    /\ pc' = "marshal"
    /\ UNCHANGED <<env, goCmd, exec, strip, prefix, version, execCalls, idx,
                   suites, doc, sink, err, trace, n, munged>>

\* doc, err := xml.MarshalIndent(suites, "", "\t")
Marshal ==
    /\ pc = "marshal"
    /\ \/ /\ doc' = <<MarshalIndent(suites)>>
          /\ trace' = Append(trace, "marshal ok")
          /\ pc' = "writeHeader"
          /\ UNCHANGED err
       \/ /\ trace' = Append(trace, "marshal err")
          /\ Return(<<"marshal error">>)
          /\ UNCHANGED doc
    /\ UNCHANGED <<env, goCmd, exec, strip, prefix, version, execCalls, idx,
                   suites, sink, n, munged>>

\* a failed out.Write(p): nothing or a part of p reached the sink
FailedWrite(p) ==
    \/ sink' = sink
    \/ sink' = Append(sink, [p |-> p, complete |-> FALSE])

\* WriteHeader that drops the error of the first write and goes on
WriteHeaderUnchecked ==
    /\ pc = "writeHeader"
    /\ \/ /\ sink' = Append(sink, [p |-> XmlHeader, complete |-> TRUE])
          /\ trace' = Append(trace, "header ok")
       \/ /\ FailedWrite(XmlHeader)
          /\ trace' = Append(trace, "header err")
    /\ pc' = "writeDoc"
    /\ UNCHANGED <<env, goCmd, exec, strip, prefix, version, execCalls, idx,
                   suites, doc, err, n, munged>>

\* _, err = out.Write([]byte(xml.Header))
WriteHeader ==
    /\ pc = "writeHeader"
    /\ \/ /\ sink' = Append(sink, [p |-> XmlHeader, complete |-> TRUE])
          /\ trace' = Append(trace, "header ok")
          /\ pc' = "writeDoc"
          /\ UNCHANGED err
       \/ /\ FailedWrite(XmlHeader)
          /\ trace' = Append(trace, "header err")
          /\ Return(<<"write error">>)
    /\ UNCHANGED <<env, goCmd, exec, strip, prefix, version, execCalls, idx,
                   suites, doc, n, munged>>

\* _, err = out.Write(doc); return err
WriteDoc ==
    /\ pc = "writeDoc"
    /\ \/ /\ sink' = Append(sink, [p |-> doc[1], complete |-> TRUE])
          /\ trace' = Append(trace, "doc ok")
          /\ Return(<<>>)
       \/ /\ FailedWrite(doc[1])
          /\ trace' = Append(trace, "doc err")
          /\ Return(<<"write error">>)
    /\ UNCHANGED <<env, goCmd, exec, strip, prefix, version, execCalls, idx,
                   suites, doc, n, munged>>

Next ==
    \/ GoVersionCall
    \/ GenerateLoop
    \/ GenerateReturn
    \/ Marshal
    \/ WriteHeader
    \/ WriteDoc

Spec == Init /\ [][Next]_vars

-----------------------------------------------------------------------------
(* goVersion alone, over more values of GOVERSION and outputs of the command *)

InitVersion ==
    /\ exec = <<>>
    /\ strip = 0
    /\ prefix = <<>>
    /\ \E v \in VersionEnv : env = [GOTESTSUM_SUITE |-> Unset, GOVERSION |-> v]
    /\ goCmd \in GoCmds
    /\ pc = "goVersion"
    /\ n = <<>>
    /\ InitIdle

NextVersion == GoVersionCall

SpecVersion == InitVersion /\ [][NextVersion]_vars

-----------------------------------------------------------------------------
(* mungePackageName alone, over all short names and prefixes *)

\* the number of "/"-separated segments of a name
NumSegments(name) == Cardinality({i \in 1..Len(name) : name[i] = "/"}) + 1

InitMunge ==
    /\ exec = <<>>
    /\ env = [GOTESTSUM_SUITE |-> Unset, GOVERSION |-> Unset]
    /\ goCmd = [err |-> TRUE, out |-> <<>>]
    /\ n \in Names
    /\ strip \in 0..(NumSegments(n) + 1)
    /\ prefix \in Prefixes
    /\ pc = "munge"
    /\ InitIdle

\* munged := mungePackageName(n, strip, prefix)
MungeCall ==
    /\ pc = "munge"
    /\ munged' = mungePackageName(n, strip, prefix)
    /\ pc' = "munged"
    /\ UNCHANGED <<env, goCmd, exec, strip, prefix, version, execCalls, idx,
                   suites, doc, sink, err, trace, n>>

NextMunge == MungeCall

SpecMunge == InitMunge /\ [][NextMunge]_vars

-----------------------------------------------------------------------------
(* Properties of generate, checked under Spec *)

\* 1 when the test driver of the package failed, else 0
DriverFailures(pkg) == IF pkg.testMainFailed THEN 1 ELSE 0

\* the case records of a suite that carry a failure annotation
FailureRecords(s) == {j \in 1..Len(s.TestCases) : s.TestCases[j].Failure # <<>>}

\* C1: the failure count of every suite is the size of the package's failed
\* partition plus one when the test driver failed, and so equals the number
\* of case records of the suite that carry a failure annotation.
C1_FailureCount ==
    \A i \in 1..Len(suites) :
        /\ suites[i].Failures = Len(exec[i].Failed) + DriverFailures(exec[i])
        /\ suites[i].Failures = Cardinality(FailureRecords(suites[i]))

\* C2: the tests attribute of every suite equals the number of case records
\* emitted in the suite, the synthetic TestMain case included.
C2_TestsCountsCaseRecords ==
    \A i \in 1..Len(suites) : suites[i].Tests = Len(suites[i].TestCases)

\* C3: the case records of a suite are the TestMain case (exactly when the
\* driver failed), then the failed, the skipped and the passed tests, each
\* group in the order of the package's list, nothing dropped or duplicated.
C3_CaseOrder ==
    \A i \in 1..Len(suites) :
        LET pkg == exec[i]
            cs == suites[i].TestCases
            off == DriverFailures(pkg)
            nf == Len(pkg.Failed)
            ns == Len(pkg.Skipped)
            np == Len(pkg.Passed)
        IN  /\ Len(cs) = off + nf + ns + np
            /\ pkg.testMainFailed =>
                  /\ cs[1].Name = "TestMain"
                  /\ cs[1].Failure # <<>>
                  /\ cs[1].SkipMessage = <<>>
            /\ \A j \in 1..nf :
                  /\ cs[off + j].Name = pkg.Failed[j].Test
                  /\ cs[off + j].Failure # <<>>
                  /\ cs[off + j].SkipMessage = <<>>
            /\ \A j \in 1..ns :
                  /\ cs[off + nf + j].Name = pkg.Skipped[j].Test
                  /\ cs[off + nf + j].Failure = <<>>
                  /\ cs[off + nf + j].SkipMessage # <<>>
            /\ \A j \in 1..np :
                  /\ cs[off + nf + ns + j].Name = pkg.Passed[j].Test
                  /\ cs[off + nf + ns + j].Failure = <<>>
                  /\ cs[off + nf + ns + j].SkipMessage = <<>>

\* a suite was built from a package with a failed driver and tests in all
\* three partitions, two of them with two tests
C3_Witness ==
    \E i \in 1..Len(suites) :
        /\ exec[i].testMainFailed
        /\ Len(exec[i].Failed) >= 1
        /\ Len(exec[i].Skipped) >= 2
        /\ Len(exec[i].Passed) >= 2

\* C7: with GOTESTSUM_SUITE set to a non-empty value every suite has that
\* value as name; with the variable unset or empty every suite has the
\* normalized package name.
C7_SuiteName ==
    \A i \in 1..Len(suites) :
        LET x == env["GOTESTSUM_SUITE"]
        IN  /\ (x.set /\ x.val # <<>>) => suites[i].Name = x.val
            /\ (~x.set \/ x.val = <<>>) =>
                  suites[i].Name = mungePackageName(exec[i].name, strip, prefix)

\* two suites were built with the override set, a strip count and a prefix
C7_Witness ==
    /\ Len(suites) = 2
    /\ env["GOTESTSUM_SUITE"].set
    /\ env["GOTESTSUM_SUITE"].val # <<>>
    /\ strip = 1
    /\ prefix # <<>>
    /\ suites[1].Name = suites[2].Name

\* C10 as stated: every case record of a suite, the TestMain case included,
\* has as classname the normalization of the name of the suite's package.
C10_ClassnameOfSuitePackage ==
    \A i \in 1..Len(suites) :
        \A j \in 1..Len(suites[i].TestCases) :
            suites[i].TestCases[j].Classname =
                mungePackageName(exec[i].name, strip, prefix)

\* C10, amended: every case record built from a test of the package has as
\* classname the normalization of the package's name; the synthetic TestMain
\* case has the normalization of the empty name; the override of the suite
\* name changes neither.
C10_Classname ==
    \A i \in 1..Len(suites) :
        \A j \in 1..Len(suites[i].TestCases) :
            LET c == suites[i].TestCases[j]
            IN  IF exec[i].testMainFailed /\ j = 1
                THEN c.Classname = mungePackageName(<<>>, strip, prefix)
                ELSE c.Classname = mungePackageName(exec[i].name, strip, prefix)

\* a suite named by the override holds a TestMain case and the case of a
\* test, with different classnames
C10_Witness ==
    \E i \in 1..Len(suites) :
        /\ env["GOTESTSUM_SUITE"].val # <<>>
        /\ exec[i].testMainFailed
        /\ Len(suites[i].TestCases) >= 2
        /\ prefix # <<>>
        /\ suites[i].TestCases[1].Classname # suites[i].TestCases[2].Classname
        /\ suites[i].TestCases[2].Classname # suites[i].Name

-----------------------------------------------------------------------------
(* Properties of Write, checked under Spec *)

\* the entries of the sink that hold the document or a part of it
DocWrites == {j \in 1..Len(sink) : sink[j].p.tag = "testsuites"}

\* C9: Write returns nil only when marshaling, the write of the declaration
\* and the write of the document all succeeded, in that order, and then the
\* sink holds the declaration followed by the whole document; a marshaling
\* failure leaves the sink empty, a failed write of the declaration is not
\* followed by a write of the document, every failure is returned wrapped,
\* and the declaration is the first thing written.
C9_NoPartialSuccess ==
    /\ sink # <<>> => sink[1].p = XmlHeader
    /\ pc = "done" =>
          /\ err = <<>> <=> trace = <<"marshal ok", "header ok", "doc ok">>
          /\ err = <<>> =>
                /\ Len(suites) = Len(exec)
                /\ sink = << [p |-> XmlHeader, complete |-> TRUE],
                             [p |-> MarshalIndent(suites), complete |-> TRUE] >>
          /\ err # <<>> => err[1].msg = "failed to write JUnit XML"
          /\ trace[1] = "marshal err" => sink = <<>> /\ Len(trace) = 1
          /\ (Len(trace) >= 2 /\ trace[2] = "header err") =>
                /\ Len(trace) = 2
                /\ DocWrites = {}
          /\ trace[Len(trace)] \in {"marshal err", "header err", "doc err"} =>
                err # <<>>

\* Write returned nil for an execution of two packages
C9_Witness ==
    /\ pc = "done"
    /\ err = <<>>
    /\ Len(exec) = 2
    /\ Len(sink) = 2

-----------------------------------------------------------------------------
(* Properties of goVersion, checked under SpecVersion *)

\* t is s without its leading and trailing white space
IsTrimmed(t, s) ==
    \E a \in 0..Len(s), b \in 0..Len(s) :
        /\ a <= b
        /\ t = SubSeq(s, a + 1, b)
        /\ \A i \in (1..a) \cup ((b + 1)..Len(s)) : IsSpace(s[i])
        /\ t # <<>> => ~IsSpace(t[1]) /\ ~IsSpace(t[Len(t)])

\* C8: goVersion returns the value of GOVERSION whenever the variable is
\* set, the empty value included, and then runs no subprocess; with the
\* variable unset it returns "unknown" when the command fails, and the
\* trimmed output without a leading "go version " when it succeeds.
C8_GoVersion ==
    pc # "goVersion" =>
        LET g == env["GOVERSION"]
        IN  /\ g.set => version = g.val /\ execCalls = 0
            /\ (~g.set /\ goCmd.err) =>
                  version = <<"u", "n", "k", "n", "o", "w", "n">> /\ execCalls = 1
            /\ (~g.set /\ ~goCmd.err) =>
                  /\ execCalls = 1
                  /\ \E a \in 0..Len(goCmd.out), b \in 0..Len(goCmd.out) :
                        LET t == SubSeq(goCmd.out, a + 1, b)
                        IN  /\ a <= b
                            /\ IsTrimmed(t, goCmd.out)
                            /\ IF Len(t) >= 11 /\ SubSeq(t, 1, 11) = GoVersionPrefix
                               THEN t = GoVersionPrefix \o version
                               ELSE t = version

\* goVersion trimmed an output with white space on both sides and the prefix
C8_Witness ==
    /\ pc = "generate"
    /\ ~env["GOVERSION"].set
    /\ ~goCmd.err
    /\ goCmd.out = <<"\n">> \o GoVersionPrefix \o <<"g", "g", "\n">>
    /\ version = <<"g", "g">>

-----------------------------------------------------------------------------
(* Properties of mungePackageName, checked under SpecMunge *)

\* the separator translation of one character
Translate(c) == IF c = "." THEN "-" ELSE IF c = "/" THEN "." ELSE c

\* a name with every "." replaced by "-" and every "/" by "."
Translated(name) == [i \in 1..Len(name) |-> Translate(name[i])]

\* the name is as path.Clean leaves a path: no empty segment and no "."
\* segment, ".." segments only at the start of a relative name
IsCleanPath(name) ==
    \/ name \in {<<"/">>, <<".">>}
    \/ /\ name # <<>>
       /\ LET rooted == name[1] = "/"
              segs == Split(IF rooted THEN Tail(name) ELSE name)
          IN  \A i \in 1..Len(segs) :
                 /\ segs[i] # <<>>
                 /\ segs[i] # <<".">>
                 /\ segs[i] = <<".", ".">> =>
                       /\ ~rooted
                       /\ \A j \in 1..(i - 1) : segs[j] = <<".", ".">>

NonEmptySegments(s) == SelectSeq(Split(s), LAMBDA e : e # <<>>)

\* C5: for a strip count smaller than the number of segments of the name,
\* mungePackageName returns the segments of the prefix followed by the
\* segments of the name after the stripped ones, joined with "/".
C5_SegmentsJoinedWithSlash ==
    (pc = "munged" /\ strip < NumSegments(n)) =>
        munged = StringsJoin(NonEmptySegments(prefix)
                             \o SubSeq(Split(n), strip + 1, NumSegments(n)))

====
